---- MODULE Spec2Model ----
(***************************************************************************)
(* The Battleship rules engine of src/server/py/battleship.py.             *)
(*                                                                         *)
(* Python objects are references.  The five Ship objects of the roster     *)
(* self.ships are the only Ship objects the engine ever creates:           *)
(* apply_action(SET_SHIP) assigns the location of the roster object and    *)
(* appends that very object to the active player's list.  The model keeps  *)
(* the roster objects in the variable ships and lets a player's ships      *)
(* field hold references (indices into ships), so that two players who     *)
(* placed the same roster ship hold one object, as in the program.         *)
(* The constructors are taken to build the records their arguments name.   *)
(***************************************************************************)
EXTENDS Naturals, Integers, Sequences, FiniteSets, TLC

VARIABLES ships, state

vars == <<ships, state>>

(* ---------------------------- bounds ----------------------------------- *)

\* During setup the driver chooses among the first PlacePick actions that
\* get_list_action offers, while running among the first ShotPick.
PlacePick == 3

ShotPick == 1

\* The driver stops shooting for a player who has fired MaxShots shots.
MaxShots == 1

(* ---------------------------- constants -------------------------------- *)

grid_size == 10

None == -1

SETUP == "setup"

RUNNING == "running"

FINISHED == "finished"

SET_SHIP == "set_ship"

SHOOT == "shoot"

Range(s) == {s[n] : n \in 1..Len(s)}

(* ---------------------------- coordinates ------------------------------ *)

Alphabet == <<"A", "B", "C", "D", "E", "F", "G", "H", "I", "J", "K", "L", "M",
             "N", "O", "P", "Q", "R", "S", "T", "U", "V", "W", "X", "Y", "Z">>

\* chr(n) for the capital letters
Chr(n) == Alphabet[n - 64]

Digits == <<"0", "1", "2", "3", "4", "5", "6", "7", "8", "9">>

\* str(n), the decimal numeral of a natural number below 100
Str(n) == IF n < 10 THEN Digits[n + 1]
          ELSE Digits[(n \div 10) + 1] \o Digits[(n % 10) + 1]

\* f"{chr(65 + i)}{k + 1}"
Coord(i, k) == Chr(65 + i) \o Str(k + 1)

(* ---------------------------- construction ----------------------------- *)

Ship(name, length, location) ==
    [name |-> name, length |-> length, location |-> location]

PlayerState(name, pships, shots, successful_shots) ==
    [name |-> name, ships |-> pships, shots |-> shots,
     successful_shots |-> successful_shots]

BattleshipGameState(idx_player_active, phase, winner, players) ==
    [idx_player_active |-> idx_player_active, phase |-> phase,
     winner |-> winner, players |-> players]

BattleshipAction(action_type, ship_name, location) ==
    [action_type |-> action_type, ship_name |-> ship_name, location |-> location]

Roster == << Ship("Carrier", 5, <<>>),
             Ship("Battleship", 4, <<>>),
             Ship("Cruiser", 3, <<>>),
             Ship("Submarine", 3, <<>>),
             Ship("Destroyer", 2, <<>>) >>

\* lines 72-80 with idx_player_active=1
NewStateSecondPlayerActive ==
    BattleshipGameState(1, SETUP, None,
        << PlayerState("Player 1", <<>>, <<>>, <<>>),
           PlayerState("Player 2", <<>>, <<>>, <<>>) >>)

NewState == BattleshipGameState(0, SETUP, None,
                << PlayerState("Player 1", <<>>, <<>>, <<>>),
                   PlayerState("Player 2", <<>>, <<>>, <<>>) >>)

\* players[i] of the program is players[i + 1] of the model
PlayerAt(st, i) == st.players[i + 1]

\* the Ship objects a player's list refers to
ShipsOf(sh, player) == [k \in 1..Len(player.ships) |-> sh[player.ships[k]]]

\* what a caller reads from the object get_state() returns
GetState(st, sh) ==
    [st EXCEPT !.players =
        [p \in 1..Len(st.players) |->
            [st.players[p] EXCEPT !.ships = ShipsOf(sh, st.players[p])]]]

(* ---------------------------- get_list_action -------------------------- *)

\* the location list of line 110
RunLocation(i, j, length) == [n \in 1..length |-> Coord(i, j + n - 1)]

\* the start columns with the ship's length forgotten
StartColumnsWholeRow(length) == grid_size

\* range(self.grid_size - ship.length + 1)
StartColumns(length) == grid_size - length + 1

SetupActions(ship) ==
    [n \in 1..(grid_size * StartColumns(ship.length)) |->
        BattleshipAction(SET_SHIP, ship.name,
            RunLocation((n - 1) \div StartColumns(ship.length),
                        (n - 1) % StartColumns(ship.length),
                        ship.length))]

\* the targets of the double loop of lines 113-115, in its order
AllTargets == [n \in 1..(grid_size * grid_size) |->
                  Coord((n - 1) \div grid_size, (n - 1) % grid_size)]

\* lines 113-117 with the test of line 116 left out
ShootActionsUnfiltered(shots) ==
    [n \in 1..Len(AllTargets) |-> BattleshipAction(SHOOT, "", <<AllTargets[n]>>)]

ShootActions(shots) ==
    LET fired == Range(shots)
        open == SelectSeq(AllTargets, LAMBDA t : t \notin fired)
    IN  [n \in 1..Len(open) |-> BattleshipAction(SHOOT, "", <<open[n]>>)]

\* lines 105-117 with the else branch taken in every phase but SETUP
GetListActionAnyPhase(st, sh) ==
    LET active_player == PlayerAt(st, st.idx_player_active)
    IN  IF st.phase = SETUP
        THEN IF Len(active_player.ships) < Len(sh)
             THEN SetupActions(sh[Len(active_player.ships) + 1])
             ELSE <<>>
        ELSE ShootActions(active_player.shots)

GetListAction(st, sh) ==
    LET active_player == PlayerAt(st, st.idx_player_active)
    IN  IF st.phase = SETUP
        THEN IF Len(active_player.ships) < Len(sh)
             THEN SetupActions(sh[Len(active_player.ships) + 1])
             ELSE <<>>
        ELSE IF st.phase = RUNNING
             THEN ShootActions(active_player.shots)
             ELSE <<>>

(* ---------------------------- apply_action ----------------------------- *)

\* next(s for s in self.ships if s.name == action.ship_name)
FindShip(sh, name) ==
    CHOOSE r \in 1..Len(sh) :
        /\ sh[r].name = name
        /\ \A q \in 1..(r - 1) : sh[q].name # name

\* line 129 with > in place of ==
PlacementCompleteOffByOne(st, active_player) ==
    /\ Len(active_player.ships) > Len(Roster)
    /\ \A p \in 1..Len(st.players) : Len(st.players[p].ships) > Len(Roster)

\* line 129 without its all(...) conjunct
PlacementCompleteActiveOnly(st, active_player) ==
    Len(active_player.ships) = Len(Roster)

\* line 129
PlacementComplete(st, active_player) ==
    /\ Len(active_player.ships) = Len(Roster)
    /\ \A p \in 1..Len(st.players) : Len(st.players[p].ships) = Len(Roster)

\* list.pop() in place of list.remove(x)
RemoveLast(s, x) == SubSeq(s, 1, Len(s) - 1)

\* list.remove(x): drops the first occurrence of x
Remove(s, x) ==
    LET at == CHOOSE n \in 1..Len(s) :
                  s[n] = x /\ \A m \in 1..(n - 1) : s[m] # x
    IN  [n \in 1..(Len(s) - 1) |-> IF n < at THEN s[n] ELSE s[n + 1]]

\* lines 135-136: position in the opponent's list of the first ship that
\* holds the target, 0 when the loop ends without a break
FirstHit(sh, opponent, target) ==
    LET hits == {k \in 1..Len(opponent.ships) :
                    target \in Range(sh[opponent.ships[k]].location)}
    IN  IF hits = {} THEN 0
        ELSE CHOOSE k \in hits : \A m \in hits : k <= m

\* line 141 with any in place of all
AnySunk(sh, opponent) ==
    \E k \in 1..Len(opponent.ships) : Len(sh[opponent.ships[k]].location) = 0

\* line 141
AllSunk(sh, opponent) ==
    \A k \in 1..Len(opponent.ships) : Len(sh[opponent.ships[k]].location) = 0

\* line 143 left out
WinnerUnset(idx_player_active) == None

\* line 143
WinnerOf(idx_player_active) == idx_player_active

\* lines 145-146 left out
TurnAdvanceNever(phase, idx_player_active) == idx_player_active

\* lines 145-146 without the test of the phase
TurnAdvanceAlways(phase, idx_player_active) == 1 - idx_player_active

\* lines 145-146
TurnAdvance(phase, idx_player_active) ==
    IF phase = RUNNING THEN 1 - idx_player_active ELSE idx_player_active

\* lines 124-130; the result is the pair of the state and the roster objects
SetShip(st, sh, action) ==
    LET me   == st.idx_player_active + 1
        r    == FindShip(sh, action.ship_name)
        sh2  == [sh EXCEPT ![r].location = action.location]
        st2  == [st EXCEPT !.players[me].ships = Append(@, r)]
        st3  == IF PlacementComplete(st2, st2.players[me])
                THEN [st2 EXCEPT !.phase = RUNNING]
                ELSE st2
    IN  [state |-> st3, ships |-> sh2]

\* lines 131-143 with the append of line 133 left out
ShootForgetsShot(st, sh, action) ==
    LET me       == st.idx_player_active + 1
        target   == action.location[1]
        opponent == PlayerAt(st, 1 - st.idx_player_active)
        k        == FirstHit(sh, opponent, target)
        st3      == IF k = 0 THEN st
                    ELSE [st EXCEPT !.players[me].successful_shots =
                                        Append(@, target)]
        sh2      == IF k = 0 THEN sh
                    ELSE [sh EXCEPT ![opponent.ships[k]].location =
                                        Remove(@, target)]
        st4      == IF AllSunk(sh2, opponent)
                    THEN [st3 EXCEPT !.phase = FINISHED,
                                     !.winner = WinnerOf(st.idx_player_active)]
                    ELSE st3
    IN  [state |-> st4, ships |-> sh2]

\* lines 131-143
Shoot(st, sh, action) ==
    LET me       == st.idx_player_active + 1
        target   == action.location[1]
        st2      == [st EXCEPT !.players[me].shots = Append(@, target)]
        opponent == PlayerAt(st2, 1 - st.idx_player_active)
        k        == FirstHit(sh, opponent, target)
        st3      == IF k = 0 THEN st2
                    ELSE [st2 EXCEPT !.players[me].successful_shots =
                                         Append(@, target)]
        sh2      == IF k = 0 THEN sh
                    ELSE [sh EXCEPT ![opponent.ships[k]].location =
                                        Remove(@, target)]
        st4      == IF AllSunk(sh2, opponent)
                    THEN [st3 EXCEPT !.phase = FINISHED,
                                     !.winner = WinnerOf(st.idx_player_active)]
                    ELSE st3
    IN  [state |-> st4, ships |-> sh2]

ApplyActionResult(st, sh, action) ==
    LET done == IF action.action_type = SET_SHIP THEN SetShip(st, sh, action)
                ELSE IF action.action_type = SHOOT THEN Shoot(st, sh, action)
                ELSE [state |-> st, ships |-> sh]
    IN  [done EXCEPT !.state.idx_player_active =
                         TurnAdvance(done.state.phase, @)]

(* ---------------------------- get_player_view -------------------------- *)

\* lines 151-154: the objects of the opponent's list get location = []
MaskedShips(st, sh, idx_player) ==
    LET opponent == PlayerAt(st, 1 - idx_player)
    IN  [r \in 1..Len(sh) |->
            IF r \in Range(opponent.ships)
            THEN [sh[r] EXCEPT !.location = <<>>]
            ELSE sh[r]]

(* ---------------------------- operations ------------------------------- *)

Init ==
    /\ ships = Roster
    /\ state = NewState

\* the actions the driver chooses from: the head of the list of line 177
Picks ==
    LET active_player == PlayerAt(state, state.idx_player_active)
        offered == GetListAction(state, ships)
        most == IF state.phase = SETUP THEN PlacePick
                ELSE IF Len(active_player.shots) < MaxShots THEN ShotPick ELSE 0
    IN  {offered[n] : n \in {m \in DOMAIN offered : m <= most}}

\* one round of the driver loop of lines 175-199
ApplyAction ==
    \E action \in Picks :
        LET done == ApplyActionResult(state, ships, action)
        IN  /\ state' = done.state
            /\ ships' = done.ships

GetPlayerView ==
    \E idx_player \in 0..1 :
        /\ ships' = MaskedShips(state, ships, idx_player)
        /\ state' = state

\* set_state(new_state), lines 96-98.  apply_action never changes the active
\* index during setup, so the second fleet is placed only if a caller hands
\* the turn over.  The caller modelled does so when get_list_action has
\* nothing left to offer during setup: it passes the state that get_state()
\* returned, with the turn given to the other player.
HandedOver(st) == [st EXCEPT !.idx_player_active = 1 - @]

SetState ==
    \E new_state \in {HandedOver(state)} :
        /\ state.phase = SETUP
        /\ GetListAction(state, ships) = <<>>
        /\ state' = new_state
        /\ ships' = ships

Next == ApplyAction \/ GetPlayerView \/ SetState

Spec == Init /\ [][Next]_vars

\* the driver and the setup hand-over, without any call of get_player_view
Play == ApplyAction \/ SetState

PlaySpec == Init /\ [][Play]_vars

\* the program's own main loop: nothing but the driver ever acts
DriverSpec == Init /\ [][ApplyAction]_vars /\ WF_vars(ApplyAction)

(* ---------------------------- reading the engine ----------------------- *)

\* the state a caller sees through get_state() now
Canonical == GetState(state, ships)

\* the state a caller sees through get_state() after apply_action(action)
AfterApply(action) ==
    LET done == ApplyActionResult(state, ships, action)
    IN  GetState(done.state, done.ships)

\* the state get_player_view(idx_player) returns
ViewOf(idx_player) == GetState(state, MaskedShips(state, ships, idx_player))

Offered == GetListAction(state, ships)

\* the offered actions the properties apply: the head of the list as the
\* driver sees it, also for a player who has fired MaxShots shots
Tried ==
    LET offered == Offered
        most == IF state.phase = SETUP THEN PlacePick ELSE ShotPick
    IN  {offered[n] : n \in {m \in DOMAIN offered : m <= most}}

\* the cells of the board as the specification names them
RowLetters == <<"A", "B", "C", "D", "E", "F", "G", "H", "I", "J">>

ColumnNumerals == <<"1", "2", "3", "4", "5", "6", "7", "8", "9", "10">>

GridCell(row, column) == RowLetters[row] \o ColumnNumerals[column]

FleetPlaced(st) ==
    \A p \in 1..Len(st.players) : Len(st.players[p].ships) = Len(Roster)

Sunk(fleet) == \A k \in 1..Len(fleet) : fleet[k].location = <<>>

(* ---------------------------- C1 --------------------------------------- *)

\* C1 as claimed: the SET_SHIP after which both players hold the whole roster
\* moves the phase from SETUP to RUNNING and leaves idx_player_active at the
\* value it had before the action.
C1_FinalSetShipKeepsTurn ==
    state.phase = SETUP =>
        \A action \in Tried :
            LET post == AfterApply(action)
            IN  FleetPlaced(post) =>
                    /\ post.phase = RUNNING
                    /\ post.idx_player_active = state.idx_player_active

\* C1 as amended: the SET_SHIP after which both players hold the whole roster
\* moves the phase from SETUP to RUNNING and flips idx_player_active to 1
\* minus the value it had before the action.
C1_FinalSetShipFlipsTurn ==
    state.phase = SETUP =>
        \A action \in Tried :
            LET post == AfterApply(action)
            IN  FleetPlaced(post) =>
                    /\ post.phase = RUNNING
                    /\ post.idx_player_active = 1 - state.idx_player_active

\* Placement has just been completed by player 1, the second to place:
\* the game is running, no shot has been fired and it is player 0's turn.
C1_Witness ==
    /\ state.phase = RUNNING
    /\ FleetPlaced(state)
    /\ \A p \in 1..Len(state.players) : state.players[p].shots = <<>>
    /\ state.idx_player_active = 0

(* ---------------------------- C2 --------------------------------------- *)

\* C2: from a freshly constructed engine the driver loop, whatever offered
\* actions it chooses, eventually reaches phase FINISHED.
C2_DriverLoopTerminates == <>(state.phase = FINISHED)

(* ---------------------------- C3 --------------------------------------- *)

\* C3: get_player_view(idx) leaves the canonical state as it was: what
\* get_state() shows after the call (phase, active index, winner, every
\* player's ships with their locations, shots, successful_shots) is what it
\* showed before, for either idx.
C3_ViewKeepsCanonicalState ==
    \A idx_player \in 0..1 : ViewOf(idx_player) = Canonical

(* ---------------------------- C4 --------------------------------------- *)

\* C4: in the state get_player_view(idx) returns, every ship of player
\* 1 - idx has an empty location and every ship of player idx has the
\* location it has in the canonical state the call found.
C4_ViewMasksOpponentOnly ==
    \A idx_player \in 0..1 :
        LET view == ViewOf(idx_player)
        IN  /\ Sunk(PlayerAt(view, 1 - idx_player).ships)
            /\ PlayerAt(view, idx_player).ships =
                   PlayerAt(Canonical, idx_player).ships

(* ---------------------------- C5 --------------------------------------- *)

\* C5: a SHOOT applied in phase RUNNING ends in phase FINISHED if and only
\* if every ship of the opponent has an empty location after the shot; when
\* it does, winner is the shooter's index and idx_player_active is not
\* flipped.
C5_ShootFinishesExactlyWhenFleetSunk ==
    state.phase = RUNNING =>
        \A action \in Tried :
            LET shooter == state.idx_player_active
                post == AfterApply(action)
            IN  /\ post.phase = FINISHED <=>
                       Sunk(PlayerAt(post, 1 - shooter).ships)
                /\ post.phase = FINISHED =>
                       /\ post.winner = shooter
                       /\ post.idx_player_active = shooter

\* A game that a shot of player 1 has just ended: the fleet of player 0 is
\* sunk, player 1 is the winner and the turn is still player 1's.
C5_Witness ==
    /\ state.phase = FINISHED
    /\ state.winner = 1
    /\ state.idx_player_active = 1
    /\ PlayerAt(state, 1).shots # <<>>
    /\ Sunk(PlayerAt(Canonical, 0).ships)

(* ---------------------------- C6 --------------------------------------- *)

\* C6: winner is set (0 or 1) if and only if phase is FINISHED; in SETUP and
\* RUNNING winner is unset.
C6_WinnerSetIffFinished ==
    /\ state.winner \in {None, 0, 1}
    /\ state.winner # None <=> state.phase = FINISHED

\* A finished game with its winner.
C6_Witness == state.phase = FINISHED /\ state.winner \in {0, 1}

(* ---------------------------- C7 --------------------------------------- *)

\* C7: while RUNNING, every SHOOT that does not end the game changes
\* idx_player_active to 1 minus its previous value; so the players' shots
\* alternate: the player to move has fired as many shots as the opponent
\* since the game began to run, or one less.
C7_NonFinalShootFlipsTurn ==
    state.phase = RUNNING =>
        /\ \A action \in Tried :
               LET post == AfterApply(action)
               IN  post.phase # FINISHED =>
                       /\ post.phase = RUNNING
                       /\ post.idx_player_active = 1 - state.idx_player_active
        /\ LET mine == Len(PlayerAt(state, state.idx_player_active).shots)
               theirs == Len(PlayerAt(state, 1 - state.idx_player_active).shots)
           IN  theirs = mine \/ theirs = mine + 1

\* A running game in which each player has fired one shot.
C7_Witness ==
    /\ state.phase = RUNNING
    /\ \A p \in 1..Len(state.players) : Len(state.players[p].shots) = 1

(* ---------------------------- C8 --------------------------------------- *)

\* C8 as claimed: every SET_SHIP after which the phase is still SETUP leaves
\* idx_player_active unchanged, and apply_action changes idx_player_active
\* only when it is applied while the phase is RUNNING.
C8_TurnChangesOnlyWhileRunning ==
    \A action \in Tried :
        LET post == AfterApply(action)
        IN  /\ (action.action_type = SET_SHIP /\ post.phase = SETUP) =>
                   post.idx_player_active = state.idx_player_active
            /\ post.idx_player_active # state.idx_player_active =>
                   state.phase = RUNNING

\* C8 as amended: every SET_SHIP after which the phase is still SETUP leaves
\* idx_player_active unchanged, and apply_action changes idx_player_active
\* only in steps after which the phase is RUNNING (the SET_SHIP that
\* completes placement among them).
C8_TurnChangesOnlyIntoRunning ==
    \A action \in Tried :
        LET post == AfterApply(action)
        IN  /\ (action.action_type = SET_SHIP /\ post.phase = SETUP) =>
                   post.idx_player_active = state.idx_player_active
            /\ post.idx_player_active # state.idx_player_active =>
                   post.phase = RUNNING

\* Player 0 has placed the whole roster while player 1 has placed nothing,
\* and the turn is still player 0's.
C8_Witness ==
    /\ state.phase = SETUP
    /\ state.idx_player_active = 0
    /\ Len(PlayerAt(state, 0).ships) = Len(Roster)
    /\ Len(PlayerAt(state, 1).ships) = 0

(* ---------------------------- C9 --------------------------------------- *)

Without(s, x) == SelectSeq(s, LAMBDA c : c # x)

\* C9: a SHOOT at c by player p appends c to p's shots; if c lies in the
\* location of exactly one ship of the opponent, c is appended to p's
\* successful_shots and that ship's location loses c and nothing else; if c
\* lies in no ship of the opponent, p's successful_shots and every location
\* of the opponent's ships stay as they were.
C9_HitBookkeeping ==
    state.phase = RUNNING =>
    \A action \in Tried :
        LET p == state.idx_player_active
            target == action.location[1]
            pre == Canonical
            post == AfterApply(action)
            me == PlayerAt(pre, p)
            me_after == PlayerAt(post, p)
            fleet == PlayerAt(pre, 1 - p).ships
            fleet_after == PlayerAt(post, 1 - p).ships
            holders == {k \in 1..Len(fleet) : target \in Range(fleet[k].location)}
        IN  /\ me_after.shots = Append(me.shots, target)
            /\ Len(fleet_after) = Len(fleet)
            /\ Cardinality(holders) = 1 =>
                   /\ me_after.successful_shots =
                          Append(me.successful_shots, target)
                   /\ \A k \in holders :
                          /\ fleet_after[k].location =
                                 Without(fleet[k].location, target)
                          /\ Len(fleet_after[k].location) =
                                 Len(fleet[k].location) - 1
            /\ holders = {} =>
                   /\ me_after.successful_shots = me.successful_shots
                   /\ fleet_after = fleet

\* Player 0 has fired one shot, a hit, at a cell that no ship holds any
\* longer, and player 1 has not fired.
C9_Witness ==
    /\ Len(PlayerAt(state, 0).shots) = 1
    /\ PlayerAt(state, 0).successful_shots = PlayerAt(state, 0).shots
    /\ PlayerAt(state, 1).shots = <<>>
    /\ \A r \in 1..Len(ships) :
           PlayerAt(state, 0).shots[1] \notin Range(ships[r].location)
    /\ \E r \in 1..Len(ships) : ships[r].location # <<>>

(* ---------------------------- C10 -------------------------------------- *)

\* the horizontal runs of length cells that fit on the board
FittingRuns(length) ==
    {[n \in 1..length |-> GridCell(row, start + n - 1)] :
        row \in 1..Len(RowLetters),
        start \in 1..(Len(ColumnNumerals) - length + 1)}

\* the fitting runs of each ship of the roster, in roster order
RosterRuns ==
    << FittingRuns(Roster[1].length), FittingRuns(Roster[2].length),
       FittingRuns(Roster[3].length), FittingRuns(Roster[4].length),
       FittingRuns(Roster[5].length) >>

\* C10: in SETUP get_list_action offers SET_SHIP actions only, all for the
\* roster ship whose index is the number of ships the active player has
\* placed; the locations are the runs of length contiguous cells of one row
\* A..J inside columns 1..10, each offered exactly once, which makes
\* 10 * (10 - length + 1) actions; the list is empty once the active player
\* holds the whole roster.
C10_SetupOffersTheFittingRuns ==
    state.phase = SETUP =>
        LET placed == Len(PlayerAt(state, state.idx_player_active).ships)
            offered == Offered
        IN  IF placed >= Len(Roster) THEN offered = <<>>
            ELSE LET ship == Roster[placed + 1]
                 IN  /\ \A n \in 1..Len(offered) :
                            /\ offered[n].action_type = SET_SHIP
                            /\ offered[n].ship_name = ship.name
                            /\ Len(offered[n].location) = ship.length
                     /\ {offered[n].location : n \in 1..Len(offered)} =
                            RosterRuns[placed + 1]
                     /\ Len(offered) =
                            Len(RowLetters) *
                                (Len(ColumnNumerals) - ship.length + 1)

\* Setup with the active player two ships in and the other player done:
\* the list is the Cruiser's.
C10_Witness ==
    /\ state.phase = SETUP
    /\ Len(PlayerAt(state, state.idx_player_active).ships) = 2
    /\ Len(PlayerAt(state, 1 - state.idx_player_active).ships) = Len(Roster)
    /\ Len(Offered) > 0

(* ---------------------------- C11 -------------------------------------- *)

\* the cells of the 10x10 grid
Board ==
    {GridCell(row, column) :
        row \in 1..Len(RowLetters), column \in 1..Len(ColumnNumerals)}

NoDuplicate(s) == Cardinality(Range(s)) = Len(s)

\* C11: in RUNNING get_list_action offers SHOOT actions only, each at one
\* cell; their targets are exactly the cells of the grid that are not in the
\* active player's shots, each offered once; so no player's shots hold a
\* duplicate, now or after an offered action is applied.
C11_RunningOffersTheUnshotCells ==
    state.phase = RUNNING =>
        LET p == state.idx_player_active
            shots == PlayerAt(state, p).shots
            offered == Offered
            open == Board \ Range(shots)
        IN  /\ \A n \in DOMAIN offered :
                   /\ offered[n].action_type = SHOOT
                   /\ Len(offered[n].location) = 1
            /\ {offered[n].location[1] : n \in DOMAIN offered} = open
            /\ Len(offered) = Cardinality(open)
            /\ \A q \in 1..Len(state.players) :
                   NoDuplicate(state.players[q].shots)
            /\ \A action \in Tried :
                   NoDuplicate(PlayerAt(AfterApply(action), p).shots)

\* A running game whose active player has fired one shot: 99 cells are left.
C11_Witness ==
    /\ state.phase = RUNNING
    /\ Len(PlayerAt(state, state.idx_player_active).shots) = 1
    /\ Len(Offered) = Cardinality(Board) - 1

(* ---------------------------- C12 -------------------------------------- *)

\* actions a caller may pass to apply_action whatever get_list_action says
Probes ==
    { BattleshipAction(SHOOT, "", <<GridCell(1, 1)>>),
      BattleshipAction(SHOOT, "", <<GridCell(10, 10)>>),
      BattleshipAction(SET_SHIP, Roster[1].name,
                       [n \in 1..Roster[1].length |-> GridCell(1, n)]) }

\* C12: FINISHED is terminal and the phase only moves forward.  In FINISHED
\* get_list_action returns the empty sequence and no apply_action changes
\* phase, winner or idx_player_active; no step of the engine changes phase,
\* winner or idx_player_active once the phase is FINISHED, and no step takes
\* the phase from RUNNING back to SETUP.
C12_FinishedIsTerminal ==
    /\ [](state.phase = FINISHED =>
             /\ Offered = <<>>
             /\ \A action \in Probes :
                    LET post == AfterApply(action)
                    IN  /\ post.phase = FINISHED
                        /\ post.winner = state.winner
                        /\ post.idx_player_active = state.idx_player_active)
    /\ [][(state.phase = FINISHED =>
                /\ state'.phase = FINISHED
                /\ state'.winner = state.winner
                /\ state'.idx_player_active = state.idx_player_active)
           /\ (state.phase = RUNNING => state'.phase # SETUP)]_vars

\* A game player 0 has won: nothing is offered any more.
C12_Witness ==
    /\ state.phase = FINISHED
    /\ state.winner = 0
    /\ Offered = <<>>

(* ---------------------------- C13 -------------------------------------- *)

\* C13: apply_action of an action that get_list_action does not return now
\* (a SHOOT during SETUP or FINISHED, a SET_SHIP during RUNNING, a SHOOT at a
\* cell already shot, a SET_SHIP for another ship than the next of the
\* roster) is rejected: it leaves the game state as it was.
C13_IllegalActionLeavesStateUnchanged ==
    \A action \in Probes :
        action \notin Range(Offered) => AfterApply(action) = Canonical

(* ---------------------------- C14 -------------------------------------- *)

\* the engine is as __init__ left it
Fresh == ships = Roster /\ state = NewState

\* C14: a freshly constructed engine is in phase SETUP with winner unset and
\* idx_player_active 0, and each of its two players holds no ships, no shots
\* and no successful shots.
C14_FreshEngine ==
    Fresh =>
        LET fresh == Canonical
        IN  /\ fresh.phase = SETUP
            /\ fresh.winner = None
            /\ fresh.idx_player_active = 0
            /\ Len(fresh.players) = 2
            /\ \A p \in 1..Len(fresh.players) :
                   /\ fresh.players[p].ships = <<>>
                   /\ fresh.players[p].shots = <<>>
                   /\ fresh.players[p].successful_shots = <<>>

\* The engine right after construction: nothing placed, SET_SHIP actions
\* for the Carrier on offer.
C14_Witness ==
    /\ Fresh
    /\ Len(Offered) > 0
    /\ \A r \in 1..Len(ships) : ships[r].location = <<>>

(* ---------------------------- C15 -------------------------------------- *)

\* the names of the ships of a fleet, in the order of the list
Names(fleet) == [k \in 1..Len(fleet) |-> fleet[k].name]

\* C15: in every state reached by applying offered actions the phase is
\* SETUP if and only if some player has placed fewer than 5 ships: an
\* offered SET_SHIP moves the phase to RUNNING in the very step that gives
\* the second player the whole roster and leaves it SETUP otherwise, and in
\* RUNNING and FINISHED each player holds exactly the 5 ships of the roster.
C15_SetupUntilBothFleetsPlaced ==
    LET now == Canonical
    IN  /\ now.phase = SETUP <=>
               \E p \in 1..Len(now.players) : Len(now.players[p].ships) < 5
        /\ now.phase \in {RUNNING, FINISHED} =>
               \A p \in 1..Len(now.players) :
                   /\ Len(now.players[p].ships) = 5
                   /\ Names(now.players[p].ships) = Names(Roster)
        /\ now.phase = SETUP =>
               \A action \in Tried :
                   LET post == AfterApply(action)
                       full == \A p \in 1..Len(post.players) :
                                   Len(post.players[p].ships) = 5
                   IN  /\ action.action_type = SET_SHIP
                       /\ full => post.phase = RUNNING
                       /\ ~full => post.phase = SETUP

\* Setup one placement before its end: the active player holds four ships,
\* the other player five.
C15_Witness ==
    /\ state.phase = SETUP
    /\ Len(PlayerAt(state, state.idx_player_active).ships) = 4
    /\ Len(PlayerAt(state, 1 - state.idx_player_active).ships) = 5
    /\ Tried # {}

(* ---------------------------- C16 -------------------------------------- *)

\* C16: a coordinate belongs to at most one ship: in every state reached by
\* applying offered actions, no cell lies in the locations of two different
\* ships of the same player.
C16_NoCellInTwoShipsOfAPlayer ==
    LET now == Canonical
    IN  \A p \in 1..Len(now.players) :
            LET fleet == now.players[p].ships
            IN  \A k \in 1..Len(fleet) : \A m \in 1..Len(fleet) :
                    k # m =>
                        Range(fleet[k].location) \cap
                            Range(fleet[m].location) = {}

(* ---------------------------- C17 -------------------------------------- *)

IsPrefix(s, t) == Len(s) <= Len(t) /\ SubSeq(t, 1, Len(s)) = s

\* C17: every player's successful_shots is a subset of that player's shots,
\* and both sequences are append-only: whatever action apply_action is
\* given, offered or not, the shots and successful_shots both players had
\* before are prefixes of those they have after.
C17_ShotListsAppendOnly ==
    /\ \A q \in 1..Len(state.players) :
           Range(state.players[q].successful_shots) \subseteq
               Range(state.players[q].shots)
    /\ \A action \in Tried \cup Probes :
           LET post == AfterApply(action)
           IN  \A q \in 1..Len(state.players) :
                   /\ IsPrefix(state.players[q].shots, post.players[q].shots)
                   /\ IsPrefix(state.players[q].successful_shots,
                               post.players[q].successful_shots)
                   /\ Range(post.players[q].successful_shots) \subseteq
                          Range(post.players[q].shots)

\* Both players have fired once: player 0 hit, player 1 missed.
C17_Witness ==
    /\ Len(PlayerAt(state, 0).shots) = 1
    /\ PlayerAt(state, 0).successful_shots = PlayerAt(state, 0).shots
    /\ Len(PlayerAt(state, 1).shots) = 1
    /\ PlayerAt(state, 1).successful_shots = <<>>

(* ---------------------------- C18 -------------------------------------- *)

\* C18: every placed ship's location holds at most length coordinates, and a
\* placed ship of player p that no shot of p's opponent has hit holds
\* exactly length coordinates.  The second half is stated for the states in
\* which p's opponent has no successful shot at all, where it must hold of
\* every ship of p.
C18_LocationShrinksOnlyByOpposingHits ==
    LET now == Canonical
    IN  \A p \in 0..1 :
            LET fleet == PlayerAt(now, p).ships
            IN  \A k \in 1..Len(fleet) :
                    /\ Len(fleet[k].location) <= fleet[k].length
                    /\ PlayerAt(now, 1 - p).successful_shots = <<>> =>
                           Len(fleet[k].location) = fleet[k].length

(* ---------------------------- C19 -------------------------------------- *)

\* C19: no deadlock before the end of the game: in every state reached from
\* construction by applying offered actions, get_list_action returns at
\* least one action whenever the phase is SETUP or RUNNING.
C19_ActionOfferedBeforeTheEnd ==
    state.phase \in {SETUP, RUNNING} => Len(Offered) > 0

(* ---------------------------- C20 -------------------------------------- *)

\* C20: the two fleets are independent: a SET_SHIP applied by player p
\* leaves the ships of player 1 - p and their locations as they were, and a
\* SHOOT applied by player p leaves every ship of p and its location as it
\* was.
C20_FleetsIndependent ==
    \A action \in Tried :
        LET p == state.idx_player_active
            pre == Canonical
            post == AfterApply(action)
        IN  /\ action.action_type = SET_SHIP =>
                   PlayerAt(post, 1 - p).ships = PlayerAt(pre, 1 - p).ships
            /\ action.action_type = SHOOT =>
                   PlayerAt(post, p).ships = PlayerAt(pre, p).ships

====
